---- MODULE Spec2Model ----
(***************************************************************************)
(* A model of pyPdf's PdfFileMerger (src/pyPdf/merger.py): the merge       *)
(* session (inputs, pages, output, bookmarks, id_count), its operations    *)
(* merge / append / write / close, and the three outline passes            *)
(* _trim_outline, _associate_bookmarks_to_pages and _write_bookmarks.      *)
(*                                                                         *)
(* Python values are represented as follows.                               *)
(*   page object          PageRef(d, i): page i of reader d; two page      *)
(*                        objects are == exactly when both fields agree    *)
(*   NumberObject(n)      [t |-> "num", d |-> 0, i |-> n]                  *)
(*   Destination (leaf)   Leaf(title, page, obj); obj is the number of the *)
(*                        merge call that built the object, so that        *)
(*                        <<obj, title>> is the identity of the object     *)
(*                        (titles are unique inside one source outline)    *)
(*   list (group)         Group(kids)                                      *)
(*   exception            a record [exc, msg]; exc = "ok" when none        *)
(***************************************************************************)
EXTENDS Integers, Sequences, FiniteSets, TLC

VARIABLES
    inputs,     \* self.inputs : sequence of (fileobj, pdfr, my_file)
    pages,      \* self.pages : sequence of _MergedPage
    output,     \* self.output : the PdfFileWriter, or None after close
    bookmarks,  \* self.bookmarks : the outline forest
    id_count,   \* self.id_count
    readers,    \* every PdfFileReader built so far (the caller's and the session's)
    closed,     \* per file handle, how many times close() was called on it
    last,       \* the last call made: which operation, and the exception raised
    args,       \* the arguments of the most recent merge/append call
    nmerge,     \* number of merge/append calls made
    nwrite,     \* number of write calls made
    namedDests  \* self._namedDests : the attribute, which __init__ does not create

vars == <<inputs, pages, output, bookmarks, id_count, readers, closed, last,
          args, nmerge, nwrite, namedDests>>

-----------------------------------------------------------------------------
(* Bounds *)

MaxMerges == 2
MaxWrites == 2
MaxEmitMerges == 3
MaxLen == 3
MaxSub == 2
MaxPages == 2

-----------------------------------------------------------------------------
(* Values *)

PageRef(d, i) == [t |-> "ref", d |-> d, i |-> i]
NumberObject(n) == [t |-> "num", d |-> 0, i |-> n]
NoPage == [t |-> "none", d |-> 0, i |-> 0]

Leaf(title, page, obj) ==
    [k |-> "L", title |-> title, page |-> page, kids |-> <<>>, obj |-> obj]
Group(kids) ==
    [k |-> "G", title |-> "", page |-> NoPage, kids |-> kids, obj |-> 0]

IsList(b) == b.k = "G"

Min(S) == CHOOSE x \in S : \A y \in S : x <= y

\* a _MergedPage that does not take the identity it is given
MergedPageNoId(pagedata, src, id) == [src |-> src, pagedata |-> pagedata, id |-> 0]

\* class _MergedPage
MergedPage(pagedata, src, id) == [src |-> src, pagedata |-> pagedata, id |-> id]

-----------------------------------------------------------------------------
(* Python range, as called with the unpacked pages argument *)

RangeSeq(a, b, c) ==
    LET cnt == IF c > 0
               THEN (IF b > a THEN (b - a + c - 1) \div c ELSE 0)
               ELSE (IF a > b THEN (a - b - c - 1) \div (-c) ELSE 0)
    IN  [x \in 1..cnt |-> a + (x - 1) * c]

PyRange(v) ==
    CASE Len(v) = 1 -> [exc |-> "ok", seq |-> RangeSeq(0, v[1], 1)]
      [] Len(v) = 2 -> [exc |-> "ok", seq |-> RangeSeq(v[1], v[2], 1)]
      [] Len(v) = 3 -> IF v[3] = 0
                       THEN [exc |-> "ValueError", seq |-> <<>>]
                       ELSE [exc |-> "ok", seq |-> RangeSeq(v[1], v[2], v[3])]
      [] OTHER -> [exc |-> "TypeError", seq |-> <<>>]

-----------------------------------------------------------------------------
(* The document reader (PdfFileReader), as merge uses it *)

\* pdfr.getPage(i) succeeds: flattenedPages[i], with Python's negative indices
InBounds(pdf, j) == -pdf.n <= j /\ j < pdf.n
GetPage(pdf, j) == PageRef(pdf.id, IF j < 0 THEN j + pdf.n ELSE j)

RECURSIVE Stamp(_, _, _)
\* pdfr.getOutlines(): the reader's outline, built anew on every call; call is
\* the number of the merge call, d the reader
Stamp(f, d, call) ==
    [x \in 1..Len(f) |->
        IF IsList(f[x]) THEN Group(Stamp(f[x].kids, d, call))
        ELSE Leaf(f[x].title, PageRef(d, f[x].page.i), call)]

GetOutlines(pdf, call) == Stamp(pdf.outline, pdf.id, call)

-----------------------------------------------------------------------------
(* _trim_outline *)

\* the inner loop "for j in range" over the unpacked pages argument for one leaf o:
\* "keep", "drop", or the exception raised by range() or by getPage()
TrimLeaf(pdf, o, v) ==
    LET r == PyRange(v)
        hit == {x \in 1..Len(r.seq) :
                   \/ ~InBounds(pdf, r.seq[x])
                   \/ GetPage(pdf, r.seq[x]) = o.page}
    IN  IF r.exc # "ok" THEN r.exc
        ELSE IF hit = {} THEN "drop"
        ELSE IF ~InBounds(pdf, r.seq[Min(hit)]) THEN "IndexError"
        ELSE "keep"

RECURSIVE TrimFrom(_, _, _, _, _, _)
\* the loop "for i, o in enumerate(outline)" from entry i on, with the loop's
\* locals new_outline and prev_header_added; the result is [exc, out]
TrimFrom(pdf, outline, v, i, new_outline, prev_header_added) ==
    IF i > Len(outline) THEN [exc |-> "ok", out |-> new_outline]
    ELSE LET o == outline[i] IN
      IF IsList(o)
      THEN LET sub == TrimFrom(pdf, o.kids, v, 1, <<>>, TRUE) IN
           IF sub.exc # "ok" THEN sub
           ELSE IF sub.out # <<>>
           THEN TrimFrom(pdf, outline, v, i + 1,
                    (IF ~prev_header_added
                     THEN Append(new_outline, outline[i - 1])
                     ELSE new_outline) \o <<Group(sub.out)>>,
                    prev_header_added)
           ELSE TrimFrom(pdf, outline, v, i + 1, new_outline, prev_header_added)
      ELSE LET res == TrimLeaf(pdf, o, v) IN
           CASE res = "keep" ->
                  TrimFrom(pdf, outline, v, i + 1, Append(new_outline, o), TRUE)
             [] res = "drop" ->
                  TrimFrom(pdf, outline, v, i + 1, new_outline, FALSE)
             [] OTHER -> [exc |-> res, out |-> <<>>]

TrimOutline(pdf, outline, v) == TrimFrom(pdf, outline, v, 1, <<>>, TRUE)

-----------------------------------------------------------------------------
(* _associate_bookmarks_to_pages *)

RECURSIVE Flatten(_)
\* the leaves of a forest in the order the recursive walks visit them
Flatten(f) ==
    IF f = <<>> THEN <<>>
    ELSE (IF IsList(Head(f)) THEN Flatten(Head(f).kids) ELSE <<Head(f)>>)
         \o Flatten(Tail(f))

Ident(b) == <<b.obj, b.title>>

\* "for p in pages: if bp.getObject() == p.pagedata.getObject(): pageno = p.id"
\* the indices of the pages that match; the last one wins
Matches(srcpages, bp) == {x \in 1..Len(srcpages) : srcpages[x].pagedata = bp}

Max(S) == CHOOSE x \in S : \A y \in S : x >= y

\* a walk that passes over a leaf no page matches instead of raising
AssocWalkSkip(leaves, i, srcpages, done) ==
    [exc |-> "ok", msg |-> "",
     done |-> {[ident |-> Ident(leaves[x]),
                id |-> srcpages[Max(Matches(srcpages, leaves[x].page))].id] :
                  x \in {y \in i..Len(leaves) :
                            /\ leaves[y].page.t # "num"
                            /\ Matches(srcpages, leaves[y].page) # {}}}]

RECURSIVE AssocWalk(_, _, _, _)
\* the walk over the leaves from leaf i on; done holds the objects rewritten
\* so far in this call as records [ident, id]; the result is [exc, msg, done]
AssocWalk(leaves, i, srcpages, done) ==
    IF i > Len(leaves) THEN [exc |-> "ok", msg |-> "", done |-> done]
    ELSE LET b == leaves[i]
             m == Matches(srcpages, b.page)
         IN  IF b.page.t = "num" \/ (\E w \in done : w.ident = Ident(b))
             THEN AssocWalk(leaves, i + 1, srcpages, done)
             ELSE IF m # {}
             THEN AssocWalk(leaves, i + 1, srcpages,
                      done \cup {[ident |-> Ident(b), id |-> srcpages[Max(m)].id]})
             ELSE [exc |-> "ValueError", msg |-> b.title, done |-> done]

\* an association that assigns to no leaf
RewriteNone(f, done) == f

RECURSIVE Rewrite(_, _)
\* the forest after the in-place assignments b['/Page'] = NumberObject(pageno)
Rewrite(f, done) ==
    [x \in 1..Len(f) |->
        IF IsList(f[x]) THEN Group(Rewrite(f[x].kids, done))
        ELSE IF f[x].page.t # "num" /\ (\E w \in done : w.ident = Ident(f[x]))
        THEN Leaf(f[x].title,
                  NumberObject((CHOOSE w \in done : w.ident = Ident(f[x])).id),
                  f[x].obj)
        ELSE f[x]]

AssociateBookmarksToPages(srcpages, bms) ==
    LET w == AssocWalk(Flatten(bms), 1, srcpages, {})
    IN  [exc |-> w.exc, msg |-> w.msg, bookmarks |-> Rewrite(bms, w.done)]

-----------------------------------------------------------------------------
(* _write_bookmarks *)

\* "for i, p in enumerate(self.pages): if p.id == b['/Page']"
PageNos(pgs, b) == {x \in 1..Len(pgs) : b.page = NumberObject(pgs[x].id)}

\* self.output.addBookmarkDestination(b, parent): the sink keeps the
\* destination it is handed and the parent; the node returned is its position
AddBookmarkDestination(outline, b, parent) ==
    Append(outline, [title |-> b.title, page |-> b.page, parent |-> parent])

RECURSIVE WriteFromReset(_, _, _, _, _, _)
\* a walk that forgets the node added last when it passes over a leaf no page
\* holds the identity of
WriteFromReset(bms, i, parent, last_added, pgs, outline) ==
    IF i > Len(bms) THEN outline
    ELSE LET b == bms[i] IN
         IF IsList(b)
         THEN WriteFromReset(bms, i + 1, parent, last_added, pgs,
                             WriteFromReset(b.kids, 1, last_added, 0, pgs, outline))
         ELSE IF PageNos(pgs, b) # {}
         THEN WriteFromReset(bms, i + 1, parent, Len(outline) + 1, pgs,
                             AddBookmarkDestination(outline, b, parent))
         ELSE WriteFromReset(bms, i + 1, parent, 0, pgs, outline)

RECURSIVE WriteFrom(_, _, _, _, _, _)
\* the loop "for b in bookmarks" from entry i on, with the local last_added
\* (0 is None); the result is the sink's outline
WriteFrom(bms, i, parent, last_added, pgs, outline) ==
    IF i > Len(bms) THEN outline
    ELSE LET b == bms[i] IN
         IF IsList(b)
         THEN WriteFrom(bms, i + 1, parent, last_added, pgs,
                        WriteFrom(b.kids, 1, last_added, 0, pgs, outline))
         ELSE IF PageNos(pgs, b) # {}
         THEN WriteFrom(bms, i + 1, parent, Len(outline) + 1, pgs,
                        AddBookmarkDestination(outline, b, parent))
         ELSE WriteFrom(bms, i + 1, parent, last_added, pgs, outline)

WriteBookmarks(bms, pgs, outline) == WriteFrom(bms, 1, 0, 0, pgs, outline)

-----------------------------------------------------------------------------
(* Source documents and call arguments *)

RECURSIVE Label(_, _)
\* titles by position: "1", "2", ... at the top, "2.1", "2.2", ... below entry 2
Label(f, prefix) ==
    [x \in 1..Len(f) |->
        IF IsList(f[x]) THEN Group(Label(f[x].kids, prefix \o ToString(x) \o "."))
        ELSE Leaf(prefix \o ToString(x), f[x].page, 0)]

SeqsUpTo(S, m) == UNION {[1..len -> S] : len \in 0..m}

\* a leaf of a source outline that targets page i of its own document
On(i) == Leaf("", PageRef(0, i), 0)

\* the outlines of a document of n pages: at the top up to MaxLen entries, each
\* a leaf or a group of 1..MaxSub leaves (a reader never yields an empty group)
LeafShapes(n) == {On(i) : i \in 0..(n - 1)}
GroupShapes(n) == {Group(g) : g \in SeqsUpTo(LeafShapes(n), MaxSub) \ {<<>>}}
Outlines(n) == {Label(f, "") : f \in SeqsUpTo(LeafShapes(n) \cup GroupShapes(n), MaxLen)}

Doc(n, outline) == [n |-> n, outline |-> outline]
Docs == UNION {{Doc(n, o) : o \in Outlines(n)} : n \in 1..MaxPages}

\* the pages argument: None, a scalar, or a sequence
PagesNone == [t |-> "none", v |-> <<>>]
PagesScalar == [t |-> "scalar", v |-> <<>>]
PagesTuple(v) == [t |-> "tuple", v |-> v]

\* the (start, end) pairs over a document of n pages, one past the end included
Pairs(n) == {PagesTuple(<<a, b>>) : a \in 0..n, b \in 0..(n + 1)}

-----------------------------------------------------------------------------
(* The session *)

NoWriter == [open |-> FALSE, pages |-> <<>>, outline |-> <<>>]
NewWriter == [open |-> TRUE, pages |-> <<>>, outline |-> <<>>]

Returned(op) == [op |-> op, exc |-> "ok", msg |-> ""]
Raised(op, exc, msg) == [op |-> op, exc |-> exc, msg |-> msg]

NoArgs == [position |-> 0, kind |-> "", rid |-> 0, bookmark |-> "",
           pgs |-> PagesNone, imp |-> FALSE]

\* self._namedDests as [set, map]: no attribute of that name, or a mapping
NoNamedDests == [set |-> FALSE, map |-> <<>>]

\* __init__
Init ==
    /\ inputs = <<>>
    /\ pages = <<>>
    /\ output = NewWriter
    /\ bookmarks = <<>>
    /\ id_count = 0
    /\ readers = <<>>
    /\ closed = <<>>
    /\ last = Returned("init")
    /\ args = NoArgs
    /\ nmerge = 0
    /\ nwrite = 0
    /\ namedDests = NoNamedDests

\* a slice assignment that ignores the position
SliceInsertFront(seq, position, new) == new \o seq

\* a slice assignment that always adds at the end
SliceInsertEnd(seq, position, new) == seq \o new

\* self.pages[position:position] = srcpages
SliceInsert(seq, position, new) ==
    LET len == Len(seq)
        at == IF position < 0 THEN (IF len + position < 0 THEN 0 ELSE len + position)
              ELSE IF position > len THEN len ELSE position
    IN  SubSeq(seq, 1, at) \o new \o SubSeq(seq, at + 1, len)

\* the body of merge from "Find the range of pages to merge" on, for the reader
\* pdf: the session fields when the call returns or raises, and the exception
MergeBody(position, pdf, my_file, bookmark, pgs, import_bookmarks, call) ==
    LET v == IF pgs.t = "none" THEN <<0, pdf.n>> ELSE pgs.v
        bm == Leaf(bookmark, NumberObject(id_count), call)
        tr == IF import_bookmarks
              THEN TrimOutline(pdf, GetOutlines(pdf, call), v)
              ELSE [exc |-> "ok", out |-> <<>>]
        bms == bookmarks \o (IF bookmark # "" THEN <<bm, Group(tr.out)>> ELSE tr.out)
        r == PyRange(v)
        bad == {x \in 1..Len(r.seq) : ~InBounds(pdf, r.seq[x])}
        cnt == IF bad = {} THEN Len(r.seq) ELSE Min(bad) - 1
        srcpages == [x \in 1..cnt |->
                        MergedPage(GetPage(pdf, r.seq[x]), pdf.id, id_count + x - 1)]
        as == AssociateBookmarksToPages(srcpages, bms)
        before == [inputs |-> inputs, pages |-> pages, bookmarks |-> bookmarks,
                   id_count |-> id_count, exc |-> "ok", msg |-> ""]
    IN  CASE pgs.t = "scalar" ->
               [before EXCEPT !.exc = "TypeError"]
          [] pgs.t # "scalar" /\ tr.exc # "ok" ->
               [before EXCEPT !.exc = tr.exc]
          [] pgs.t # "scalar" /\ tr.exc = "ok" /\ r.exc # "ok" ->
               [before EXCEPT !.bookmarks = bms, !.exc = r.exc]
          [] pgs.t # "scalar" /\ tr.exc = "ok" /\ r.exc = "ok" /\ bad # {} ->
               [before EXCEPT !.bookmarks = bms, !.id_count = id_count + cnt,
                              !.exc = "IndexError"]
          [] pgs.t # "scalar" /\ tr.exc = "ok" /\ r.exc = "ok" /\ bad = {}
               /\ as.exc # "ok" ->
               [before EXCEPT !.bookmarks = as.bookmarks,
                              !.id_count = id_count + cnt,
                              !.exc = as.exc, !.msg = as.msg]
          [] OTHER ->
               [inputs |-> Append(inputs, [fo |-> pdf.id, pdfr |-> pdf.id,
                                           mine |-> my_file]),
                pages |-> SliceInsert(pages, position, srcpages),
                bookmarks |-> as.bookmarks,
                id_count |-> id_count + cnt,
                exc |-> "ok", msg |-> ""]

\* merge(position, fileobj, bookmark, pages, import_bookmarks). kind is the type
\* of fileobj: "path" (a file name, opened by the session), "file" (an open file)
\* or "reader" (a PdfFileReader: the caller's reader rid of this document when
\* it has built one, a new one when rid = Len(readers) + 1)
Merge(position, kind, rid, doc, bookmark, pgs, import_bookmarks) ==
    /\ \/ rid = Len(readers) + 1
       \/ /\ kind = "reader"
          /\ rid \in 1..Len(readers)
          /\ readers[rid] = [id |-> rid, n |-> doc.n, outline |-> doc.outline,
                             kind |-> "reader"]
    /\ \E pdf \in {[id |-> rid, n |-> doc.n, outline |-> doc.outline, kind |-> kind]} :
       \E res \in {MergeBody(position, pdf, kind = "path", bookmark, pgs,
                             import_bookmarks, nmerge + 1)} :
           /\ readers' = IF rid > Len(readers) THEN Append(readers, pdf) ELSE readers
           /\ closed' = IF rid > Len(readers) THEN Append(closed, 0) ELSE closed
           /\ inputs' = res.inputs
           /\ pages' = res.pages
           /\ bookmarks' = res.bookmarks
           /\ id_count' = res.id_count
           /\ last' = Raised("merge", res.exc, res.msg)
           /\ args' = [position |-> position, kind |-> kind, rid |-> rid,
                       bookmark |-> bookmark, pgs |-> pgs, imp |-> import_bookmarks]
    /\ nmerge' = nmerge + 1
    /\ UNCHANGED <<output, nwrite, namedDests>>

\* append(fileobj, bookmark, pages, import_bookmarks)
AppendDoc(kind, rid, doc, bookmark, pgs, import_bookmarks) ==
    Merge(Len(pages), kind, rid, doc, bookmark, pgs, import_bookmarks)

\* write(fileobj): with self.output None the first use of it raises
Write ==
    /\ nwrite < MaxWrites
    /\ IF output.open
       THEN /\ output' = [open |-> TRUE,
                          pages |-> output.pages \o
                                    [x \in 1..Len(pages) |-> pages[x].pagedata],
                          outline |-> WriteBookmarks(bookmarks, pages, output.outline)]
            /\ last' = Returned("write")
       ELSE /\ output' = output
            /\ last' = Raised("write", "AttributeError", "")
    /\ nwrite' = nwrite + 1
    /\ UNCHANGED <<inputs, pages, bookmarks, id_count, readers, closed, args,
                   nmerge, namedDests>>

\* close()
Close ==
    /\ pages' = <<>>
    /\ closed' = [h \in 1..Len(closed) |->
                    closed[h] + Cardinality({x \in 1..Len(inputs) :
                                                inputs[x].fo = h /\ inputs[x].mine})]
    /\ inputs' = <<>>
    /\ output' = NoWriter
    /\ last' = Returned("close")
    /\ UNCHANGED <<bookmarks, id_count, readers, args, nmerge, nwrite,
                   namedDests>>

-----------------------------------------------------------------------------
(* The session's callers *)

\* the documents the callers of a session merge
DocA == Doc(2, Label(<<On(0), On(1), Group(<<On(0)>>)>>, ""))
DocB == Doc(1, <<>>)
DocC == Doc(1, Label(<<Group(<<On(0)>>), On(0)>>, ""))

Titles == {"", "bm"}

Call(kind, doc, bookmark, pgs, import_bookmarks) ==
    [kind |-> kind, doc |-> doc, bookmark |-> bookmark, pgs |-> pgs,
     imp |-> import_bookmarks]

\* the calls made: page ranges of the nested document given as a reader, whole
\* documents given by name, a document without its outline, and pages
\* arguments that are no (start, end)
Calls ==
    {Call("reader", DocA, "", PagesNone, TRUE),
     Call("reader", DocA, "", PagesTuple(<<1, 2>>), TRUE),
     Call("reader", DocA, "bm", PagesTuple(<<0, 1>>), TRUE),
     Call("reader", DocA, "bm", PagesTuple(<<0, 0>>), TRUE),
     Call("path", DocC, "bm", PagesNone, TRUE),
     Call("file", DocC, "bm", PagesNone, FALSE)}
    \cup {Call("path", DocB, "", pgs, TRUE) :
            pgs \in {PagesScalar, PagesTuple(<<1>>), PagesTuple(<<0, 2, 2>>)}}

Next ==
    \/ \E position \in 0..Len(pages), c \in Calls, rid \in 1..(Len(readers) + 1) :
          /\ nmerge < MaxMerges
          /\ Merge(position, c.kind, rid, c.doc, c.bookmark, c.pgs, c.imp)
    \/ \E c \in Calls, rid \in 1..(Len(readers) + 1) :
          /\ nmerge < MaxMerges
          /\ AppendDoc(c.kind, rid, c.doc, c.bookmark, c.pgs, c.imp)
    \/ Write
    \/ Close

Spec == Init /\ [][Next]_vars

-----------------------------------------------------------------------------
(* One document through the pipeline: trim, associate, emit on a fresh session *)

NextPipe ==
    \/ \E doc \in Docs :
          \E pgs \in Pairs(doc.n) \cup {PagesNone} :
             /\ nmerge = 0
             /\ Merge(0, "reader", 1, doc, "", pgs, TRUE)
    \/ /\ nmerge = 1
       /\ nwrite = 0
       /\ Write

SpecPipe == Init /\ [][NextPipe]_vars

-----------------------------------------------------------------------------
(* Whole documents appended, then written once *)

WholeCalls ==
    {Call(kind, doc, bookmark, PagesNone, imp) :
        kind \in {"path", "file", "reader"}, doc \in {DocA, DocB, DocC},
        bookmark \in Titles, imp \in BOOLEAN}

NextAppend ==
    \/ \E c \in WholeCalls, rid \in 1..(Len(readers) + 1) :
          /\ nwrite = 0
          /\ nmerge < MaxMerges
          /\ AppendDoc(c.kind, rid, c.doc, c.bookmark, c.pgs, c.imp)
    \/ /\ nwrite = 0
       /\ Write

SpecAppend == Init /\ [][NextAppend]_vars

-----------------------------------------------------------------------------
(* Sessions of up to MaxEmitMerges merges of one document, then written once *)

\* the calls that hand a reader of the nested document
EmitCalls == {c \in Calls : c.kind = "reader"}

NextEmit ==
    \/ \E position \in 0..Len(pages), c \in EmitCalls, rid \in 1..(Len(readers) + 1) :
          /\ nwrite = 0
          /\ nmerge < MaxEmitMerges
          /\ Merge(position, c.kind, rid, c.doc, c.bookmark, c.pgs, c.imp)
    \/ /\ nwrite = 0
       /\ Write

SpecEmit == Init /\ [][NextEmit]_vars

-----------------------------------------------------------------------------
(* Claims *)

\* the leaves write emits, in emission order: those whose identity is the id
\* of a page of the current sequence
Emitted == SelectSeq(Flatten(bookmarks), LAMBDA b : PageNos(pages, b) # {})

\* the reader of the most recent merge call and the indices its pages
\* argument selects
ArgPdf == readers[args.rid]
ArgRange == PyRange(IF args.pgs.t = "none" THEN <<0, ArgPdf.n>> ELSE args.pgs.v).seq

\* the trimmed outline of the most recent merge call
ArgTrimmed ==
    CHOOSE r \in {TrimOutline(pdf, o, v) :
                    pdf \in {ArgPdf},
                    o \in {GetOutlines(ArgPdf, nmerge)},
                    v \in {IF args.pgs.t = "none" THEN <<0, ArgPdf.n>>
                                                ELSE args.pgs.v}} : TRUE

\* the page objects the loop "for i in range" of the most recent merge call
\* got from the reader: none when the call raised before the loop, else all
\* the range selects, or those before the first index getPage raises
\* IndexError for
AdmittedAfter(trimmed) ==
    LET bad == {x \in 1..Len(ArgRange) : ~InBounds(ArgPdf, ArgRange[x])}
        cnt == IF bad = {} THEN Len(ArgRange) ELSE Min(bad) - 1
    IN  IF args.pgs.t = "scalar" \/ (args.imp /\ trimmed.exc # "ok") THEN {}
        ELSE {GetPage(ArgPdf, ArgRange[x]) : x \in 1..cnt}
ArgAdmitted == AdmittedAfter(ArgTrimmed)

\* pages given as None or as a (start, end)
TwoElement(pgs) == pgs.t = "none" \/ (pgs.t = "tuple" /\ Len(pgs.v) = 2)

\* a (start, end) inside the document
InDocument(pgs, n) ==
    pgs.t = "none" \/ (pgs.t = "tuple" /\ Len(pgs.v) = 2
                       /\ 0 <= pgs.v[1] /\ pgs.v[1] <= n
                       /\ 0 <= pgs.v[2] /\ pgs.v[2] <= n)

\* C1: every outline entry that write emits targets the current positional
\* index of the page whose identity its leaf holds. Stated for the first write
\* of a session, whose sink holds the entries of that write alone. The code
\* hands the sink the leaf itself, whose /Page is the identity.
C1_EmittedAtCurrentIndex ==
    (last = Returned("write") /\ nwrite = 1) =>
        /\ Len(output.outline) = Len(Emitted)
        /\ \A k \in 1..Len(Emitted) :
              /\ output.outline[k].title = Emitted[k].title
              /\ \E x \in 1..Len(pages) :
                    /\ pages[x].id = Emitted[k].page.i
                    /\ output.outline[k].page = NumberObject(x - 1)

\* C2: identities are issued in strictly increasing order over the session: a
\* step never lowers id_count, every page it admits has an identity at least
\* the old id_count (so above every identity issued before, those of aborted
\* calls included) and the admitted pages carry increasing identities; the
\* pages of the sequence have pairwise different identities, all below
\* id_count; a page that stays in the sequence keeps its identity.
C2_IdentitiesIncrease ==
    [][ /\ id_count' >= id_count
        /\ \A x \in 1..Len(pages') :
              /\ pages'[x].id < id_count'
              /\ pages'[x].id < id_count =>
                    \E y \in 1..Len(pages) : pages[y] = pages'[x]
              /\ \A y \in 1..Len(pages') :
                    (x < y /\ pages'[x].id >= id_count /\ pages'[y].id >= id_count)
                        => pages'[x].id < pages'[y].id
              /\ \A y \in 1..Len(pages') : x # y => pages'[x].id # pages'[y].id
      ]_vars

\* C2 witness: a merge admitted pages after an earlier call had aborted with
\* identities already issued
C2_Witness ==
    /\ nmerge = 2
    /\ last = Returned("merge")
    /\ pages # <<>>
    /\ id_count > Len(pages)
    /\ \A x \in 1..Len(pages) : pages[x].id >= 1

\* the leaves of the source outline of the pipeline's document
PipeSource == Flatten(GetOutlines(readers[1], 1))

\* C3: on a fresh session, merge (trim, associate) and then write emit, for
\* every leaf of the source outline whose page lies in the range, exactly one
\* entry with its title.
C3_OnePerInRangeLeaf ==
    (nmerge = 1 /\ nwrite = 1 /\ last.op = "write" /\ InDocument(args.pgs, ArgPdf.n)) =>
        \A x \in 1..Len(PipeSource) :
            PipeSource[x].page \in ArgAdmitted =>
                Cardinality({k \in 1..Len(output.outline) :
                                output.outline[k].title = PipeSource[x].title}) = 1

RECURSIVE PagesBefore(_)
\* the number of pages admitted by the calls before the k-th successful one
PagesBefore(k) == IF k <= 1 THEN 0
                  ELSE PagesBefore(k - 1) + readers[inputs[k - 1].pdfr].n

RECURSIVE Concatenated(_)
\* all pages of the documents of the first k successful calls, in call order
Concatenated(k) ==
    IF k = 0 THEN <<>>
    ELSE Concatenated(k - 1) \o
         [i \in 1..readers[inputs[k].pdfr].n |-> PageRef(inputs[k].pdfr, i - 1)]

\* the page index a title has in the source outline of call k
SourceLeaves(k) == Flatten(readers[inputs[k].pdfr].outline)
SourceTitles(k) == {SourceLeaves(k)[x].title : x \in 1..Len(SourceLeaves(k))}
SourceIndex(k, title) ==
    (CHOOSE b \in {SourceLeaves(k)[x] : x \in 1..Len(SourceLeaves(k))} :
        b.title = title).page.i

\* C4: after whole documents were appended and none failed, write puts out
\* the pages of all documents in call order, and emits every imported
\* bookmark at (pages admitted before its document) + (its page in its source).
C4_AppendConcatenates ==
    (last.op = "write") =>
        /\ last.exc = "ok"
        /\ Len(inputs) = nmerge
        /\ output.pages = Concatenated(Len(inputs))
        /\ Len(output.pages) = PagesBefore(Len(inputs) + 1)
        /\ Len(output.outline) = Len(Flatten(bookmarks))
        /\ \A j \in 1..Len(output.outline) :
              LET b == Flatten(bookmarks)[j]
                  e == output.outline[j]
              IN  /\ e.title = b.title
                  /\ b.title \in SourceTitles(b.obj) =>
                        e.page = NumberObject(PagesBefore(b.obj)
                                              + SourceIndex(b.obj, b.title))
        /\ \A k \in 1..Len(inputs) :
              LET got == {b.title : b \in {Flatten(bookmarks)[j] :
                                             j \in 1..Len(Flatten(bookmarks))} \cap
                                          {c \in {Flatten(bookmarks)[j] :
                                             j \in 1..Len(Flatten(bookmarks))} :
                                             c.obj = k}}
              IN  got \ {"bm"} \in {{}, SourceTitles(k)}

\* C4 witness: two documents appended and written, with a bookmark of the
\* second one emitted behind the pages of the first
C4_Witness ==
    /\ last = Returned("write")
    /\ nmerge = 2
    /\ Len(output.pages) = 3
    /\ \E k \in 1..Len(output.outline) : output.outline[k].page = NumberObject(2)

\* C5: a merge call whose pages argument is no two-element bound raises, and
\* leaves inputs, pages, bookmarks and id_count as they were.
C5_MalformedRangeRejected ==
    [][ (nmerge' = nmerge + 1 /\ ~TwoElement(args'.pgs)) =>
            /\ last'.exc # "ok"
            /\ UNCHANGED <<inputs, pages, bookmarks, id_count>>
      ]_vars

\* the leaves of the session's forest that still hold a raw page reference
RawLeaves == SelectSeq(Flatten(bookmarks), LAMBDA b : b.page.t = "ref")

\* C6: a merge call returns normally only with no raw page reference left in
\* the forest; when association meets a leaf that none of the call's pages
\* matches, the call raises the unresolved-bookmark error with the title of
\* the first such leaf in depth-first order.
C6_UnresolvedRaises ==
    (last.op = "merge") =>
        /\ last.exc = "ok" => RawLeaves = <<>>
        /\ (last.exc = "ValueError" /\ last.msg # "") =>
              /\ RawLeaves # <<>>
              /\ RawLeaves[1].page \notin ArgAdmitted
              /\ last.msg = RawLeaves[1].title

\* C6 witness: a merge call aborted naming the header that trimming retained
C6_Witness ==
    /\ last = Raised("merge", "ValueError", "2")
    /\ RawLeaves # <<>>
    /\ RawLeaves[1].title = "2"

\* C7: for a document whose leaves all target its own pages and a two-element
\* range, merge with the outline imported never raises the unresolved-bookmark
\* error: every leaf the trimmer leaves targets a page of the range.
C7_WellFormedNeverUnresolved ==
    (last.op = "merge" /\ args.imp /\ InDocument(args.pgs, ArgPdf.n)) =>
        /\ ~(last.exc = "ValueError" /\ last.msg # "")
        /\ \A x \in 1..Len(Flatten(ArgTrimmed.out)) :
              Flatten(ArgTrimmed.out)[x].page \in ArgAdmitted

RECURSIVE NoEmptyGroup(_)
NoEmptyGroup(f) ==
    \A x \in 1..Len(f) : IsList(f[x]) => (f[x].kids # <<>> /\ NoEmptyGroup(f[x].kids))

\* no leaf occurs twice in the forest (titles are unique in a source outline)
NoRepeat(f) ==
    \A x, y \in 1..Len(Flatten(f)) :
        x # y => Flatten(f)[x].title # Flatten(f)[y].title

\* a leaf outside the range is in the output only right before a group
HeadersOnly(f) ==
    \A x \in 1..Len(f) :
        (~IsList(f[x]) /\ f[x].page \notin ArgAdmitted) =>
            (x < Len(f) /\ IsList(f[x + 1]))

\* C8: the output of trim has no empty group at any depth, keeps a leaf
\* outside the range only as the header of a surviving group, and holds no
\* entry of the input more than once.
C8_TrimOutputShape ==
    (last.op = "merge" /\ args.imp /\ InDocument(args.pgs, ArgPdf.n)) =>
        /\ ArgTrimmed.exc = "ok"
        /\ NoEmptyGroup(ArgTrimmed.out)
        /\ HeadersOnly(ArgTrimmed.out)
        /\ NoRepeat(ArgTrimmed.out)

\* C9: a write that follows a write, with no call in between, leaves the sink
\* with the pages and the outline the first write gave it.
C9_WriteTwiceSame ==
    [][ (last = Returned("write") /\ nwrite' = nwrite + 1) =>
            (output'.pages = output.pages /\ output'.outline = output.outline)
      ]_vars

\* C10: after close, which never raises, every handle the session opened
\* itself has been closed exactly once and no handle of the caller has been
\* closed, and the session is in the state a further close leaves unchanged.
C10_CloseReleasesOwned ==
    (last.op = "close") =>
        /\ last.exc = "ok"
        /\ \A h \in 1..Len(readers) :
              closed[h] = IF readers[h].kind = "path" THEN 1 ELSE 0
        /\ inputs = <<>> /\ pages = <<>> /\ output = NoWriter

\* C11: after close the session holds nothing of the earlier merges: the page
\* sequence, the bookmark forest and the list of inputs are all empty.
C11_CloseClearsState ==
    (last.op = "close") =>
        (pages = <<>> /\ bookmarks = <<>> /\ inputs = <<>>)

\* the titles of the leaves of a forest, in depth-first order
TitlesOf(f) == [x \in 1..Len(Flatten(f)) |-> Flatten(f)[x].title]

\* the top-level leaves of the forest that merge synthesized from a title
Synthesized(f) == {f[j] : j \in {x \in 1..Len(f) : ~IsList(f[x]) /\ f[x].title \in Titles}}

\* C12: a merge call given a bookmark title appends to the forest a top-level
\* leaf with that title followed by one group holding the call's trimmed
\* outline; the leaf holds the identity of the first page the call admits, and
\* no page admitted by a call holds the identity of a leaf synthesized by an
\* earlier call.
C12_TitledLeafOwnPage ==
    [][ (nmerge' = nmerge + 1 /\ last'.exc = "ok") =>
          /\ args'.bookmark # "" =>
                LET n == Len(bookmarks') IN
                /\ n = Len(bookmarks) + 2
                /\ bookmarks'[n - 1] =
                      Leaf(args'.bookmark, NumberObject(id_count), nmerge')
                /\ IsList(bookmarks'[n])
                /\ TitlesOf(bookmarks'[n].kids) =
                      (IF args'.imp THEN TitlesOf(ArgTrimmed'.out) ELSE <<>>)
                /\ id_count' > id_count =>
                      pages'[args'.position + 1].id = id_count
          /\ \A x \in 1..Len(pages') :
                pages'[x].id >= id_count =>
                    \A b \in Synthesized(bookmarks) :
                        b.page # NumberObject(pages'[x].id)
      ]_vars

-----------------------------------------------------------------------------
(* getNamedDestinations: flattening the name tree of the output's catalog *)

MaxNodes == 4

\* _buildDestination(title, array): [exc, dest]. "page, typ = array[0:2]"
\* raises ValueError for an array of fewer than two elements; otherwise the
\* result is Destination(title, page, typ, ...)
BuildDestination(title, array) ==
    IF Len(array) < 2
    THEN [exc |-> "ValueError", dest |-> Leaf(title, NoPage, 0)]
    ELSE [exc |-> "ok", dest |-> Leaf(title, array[1], 0)]

\* an assignment that keeps the entry a key already has
PutKeep(retval, key, dest) ==
    [k \in DOMAIN retval \cup {key} |-> IF k \in DOMAIN retval THEN retval[k] ELSE dest]

\* retval[key] = dest
Put(retval, key, dest) ==
    [k \in DOMAIN retval \cup {key} |-> IF k = key THEN dest ELSE retval[k]]

\* a node of the name tree: a dictionary that may have /Kids (a list of
\* nodes), may have /Names (key, value pairs, here one record per pair), and
\* otherwise maps keys to destination arrays (dests)
NameNode(hasKids, kids, hasNames, names, dests) ==
    [hasKids |-> hasKids, kids |-> kids, hasNames |-> hasNames, names |-> names,
     dests |-> dests]

\* a value of /Names: the destination array itself, or a dictionary whose /D
\* is the array
\* or an array of the page alone
Arr(p) == [d |-> FALSE, arr |-> <<PageRef(0, p), "/Fit">>]
InD(p) == [d |-> TRUE, arr |-> <<PageRef(0, p), "/Fit">>]
Short(p) == [d |-> FALSE, arr |-> <<PageRef(0, p)>>]

\* the loops below carry [exc, ret]: the exception raised so far ("ok" for
\* none) and the mapping retval; once an exception is raised nothing more is
\* done
RECURSIVE NamesFrom(_, _, _)
\* the loop over /Names from pair i on
NamesFrom(names, i, r) ==
    IF r.exc # "ok" \/ i > Len(names) THEN r
    ELSE LET b == BuildDestination(names[i].key, names[i].val.arr)
         IN  IF b.exc # "ok" THEN [r EXCEPT !.exc = b.exc]
             ELSE NamesFrom(names, i + 1,
                            [r EXCEPT !.ret = Put(r.ret, names[i].key, b.dest)])

RECURSIVE DestsFrom(_, _)
\* the loop over the keys of a dictionary without /Names and /Kids;
\* tree[key][0] raises IndexError for an empty array. tree.keys() gives the
\* keys in the order of the dictionary's hash table, which the tree does not
\* determine: the result is the set of the outcomes of all visiting orders
DestsFrom(dests, r) ==
    IF r.exc # "ok" \/ DOMAIN dests = {} THEN {r}
    ELSE UNION {LET b == BuildDestination(key, dests[key])
                IN  IF dests[key] = <<>> THEN {[r EXCEPT !.exc = "IndexError"]}
                    ELSE IF b.exc # "ok" THEN {[r EXCEPT !.exc = b.exc]}
                    ELSE DestsFrom([k \in DOMAIN dests \ {key} |-> dests[k]],
                                   [r EXCEPT !.ret = Put(r.ret, key, b.dest)]) :
                  key \in DOMAIN dests}

RECURSIVE Walk(_, _)
RECURSIVE KidsFrom(_, _, _)
\* the loop "for kid in tree[/Kids]" from kid i on, for each of the outcomes
\* rs so far
KidsFrom(kids, i, rs) ==
    IF i > Len(kids) THEN rs
    ELSE KidsFrom(kids, i + 1, UNION {Walk(kids[i], r) : r \in rs})

\* the body of getNamedDestinations from "if tree.has_key(/Kids)" on, for a
\* dictionary tree: the set of its outcomes
Walk(tree, r) ==
    IF r.exc # "ok" THEN {r}
    ELSE LET s1 == IF tree.hasKids THEN KidsFrom(tree.kids, 1, {r}) ELSE {r}
             s2 == IF tree.hasNames
                   THEN {NamesFrom(tree.names, 1, x) : x \in s1}
                   ELSE s1
         IN  IF ~tree.hasNames /\ ~tree.hasKids
             THEN UNION {DestsFrom(tree.dests, x) : x \in s2}
             ELSE s2

\* getNamedDestinations(tree, retval) for a dictionary tree: the set of the
\* outcomes [exc, ret] the call can have
GetNamedDestinations(tree, retval) == Walk(tree, [exc |-> "ok", ret |-> retval])

\* the name trees flattened have at most MaxNodes nodes; a node is made with
\* one of the /Names lists below, or with an empty /Kids list, or as a
\* dictionary of destinations, and gets its kids one by one
Pair(key, val) == [key |-> key, val |-> val]
NodeNames ==
    {<<>>, <<Pair("a", InD(1))>>, <<Pair("b", Arr(0)), Pair("a", Arr(1))>>,
     <<Pair("b", Short(0))>>}
NodeDests ==
    {[k \in {"a"} |-> <<PageRef(0, 1), "/Fit">>],
     [k \in {"a", "b"} |-> IF k = "a" THEN <<>> ELSE <<PageRef(0, 0)>>],
     [k \in {"a", "b"} |-> IF k = "a" THEN <<PageRef(0, 1), "/Fit">>
                                      ELSE <<PageRef(0, 0)>>],
     [k \in {"a", "b"} |-> <<PageRef(0, 0), "/Fit">>]}
NewNodes ==
    {NameNode(FALSE, <<>>, TRUE, names, <<>>) : names \in NodeNames}
    \cup {NameNode(TRUE, <<>>, FALSE, <<>>, <<>>)}
    \cup {NameNode(FALSE, <<>>, FALSE, <<>>, dests) : dests \in NodeDests}

RECURSIVE CountNodes(_, _)
\* the number of nodes of the trees f[i..]
CountNodes(f, i) ==
    IF i > Len(f) THEN 0
    ELSE 1 + CountNodes(f[i].kids, 1) + CountNodes(f, i + 1)

RECURSIVE RightPath(_)
\* the nodes from a tree's root down its last kids
RightPath(tree) ==
    <<tree>> \o (IF tree.kids = <<>> THEN <<>> ELSE RightPath(tree.kids[Len(tree.kids)]))

RECURSIVE AddKid(_, _, _)
\* the tree with node appended to the /Kids of the d-th node below the root
\* on the path down the last kids
AddKid(tree, d, node) ==
    IF d = 0
    THEN [tree EXCEPT !.kids = Append(@, node), !.hasKids = TRUE]
    ELSE [tree EXCEPT !.kids[Len(tree.kids)] = AddKid(@, d - 1, node)]

\* the caller starts a name tree
NewTree(node) ==
    /\ last.op = "init"
    /\ args = NoArgs
    /\ args' = [tree |-> node]
    /\ UNCHANGED <<inputs, pages, output, bookmarks, id_count, readers, closed,
                   last, nmerge, nwrite, namedDests>>

\* the caller adds a node to the name tree
GrowTree(d, node) ==
    /\ last.op = "init"
    /\ args # NoArgs
    /\ CountNodes(<<args.tree>>, 1) < MaxNodes
    /\ d < Len(RightPath(args.tree))
    /\ RightPath(args.tree)[d + 1].dests = <<>>
    /\ args' = [tree |-> AddKid(args.tree, d, node)]
    /\ UNCHANGED <<inputs, pages, output, bookmarks, id_count, readers, closed,
                   last, nmerge, nwrite, namedDests>>

\* a call of getNamedDestinations on a session whose output is open; the
\* result is recorded with the call
GetNamedDestinationsCall(tree) ==
    /\ output.open
    /\ \E res \in GetNamedDestinations(tree, <<>>) :
          last' = [op |-> "getNamedDestinations", exc |-> res.exc, msg |-> "",
                   ret |-> IF res.exc = "ok" THEN res.ret ELSE <<>>]
    /\ args' = [tree |-> tree]
    /\ UNCHANGED <<inputs, pages, output, bookmarks, id_count, readers, closed,
                   nmerge, nwrite, namedDests>>

\* a name tree is built and then flattened, on a fresh session
NextNames ==
    \/ \E node \in NewNodes : NewTree(node)
    \/ \E d \in 0..(MaxNodes - 1), node \in NewNodes : GrowTree(d, node)
    \/ /\ last.op = "init"
       /\ args # NoArgs
       /\ GetNamedDestinationsCall(args.tree)

SpecNames == Init /\ [][NextNames]_vars

RECURSIVE AllKeys(_)
\* the keys found anywhere in a name tree
AllKeys(tree) ==
    {tree.names[i].key : i \in 1..Len(tree.names)}
    \cup DOMAIN tree.dests
    \cup UNION {AllKeys(tree.kids[i]) : i \in 1..Len(tree.kids)}

RECURSIVE Subtrees(_)
\* a name tree and all the trees below it
Subtrees(tree) == {tree} \cup UNION {Subtrees(tree.kids[i]) : i \in 1..Len(tree.kids)}

\* the mappings that flattening a tree on its own can return
Flat(tree) == {r.ret : r \in {x \in GetNamedDestinations(tree, <<>>) : x.exc = "ok"}}

\* C13: flattening a name tree, when it returns, gives one entry per key found
\* anywhere in the tree, the entry of a key being a destination titled with
\* the key; and at every node, a key that occurs under several kids has the
\* value it has in the last of those kids (unless the node's own /Names gives
\* it one).
C13_FlattenLaterKidWins ==
    (last.op = "getNamedDestinations" /\ last.exc = "ok") =>
        /\ DOMAIN last.ret = AllKeys(args.tree)
        /\ \A k \in DOMAIN last.ret : last.ret[k].title = k
        /\ \A node \in Subtrees(args.tree) :
              \A k \in AllKeys(node) \ {node.names[i].key : i \in 1..Len(node.names)} :
                  LET under == {i \in 1..Len(node.kids) : k \in AllKeys(node.kids[i])}
                  IN  under # {} =>
                          \A f \in Flat(node), g \in Flat(node.kids[Max(under)]) :
                              f[k] = g[k]

\* C13 witness: a tree of three levels in which a key occurs with different
\* values under two kids of one node, flattened
C13_Witness ==
    /\ last.op = "getNamedDestinations"
    /\ last.exc = "ok"
    /\ \E node \in Subtrees(args.tree) :
          /\ Len(node.kids) = 2
          /\ "a" \in AllKeys(node.kids[1]) \cap AllKeys(node.kids[2])
          /\ \E f \in Flat(node.kids[1]), g \in Flat(node.kids[2]) : f["a"] # g["a"]
          /\ \E i \in 1..2 : node.kids[i].hasKids

RECURSIVE ClaimedFrom(_, _, _, _, _, _)
\* the sink's outline when every level starts with last_added at the parent
\* its caller supplied
ClaimedFrom(bms, i, parent, last_added, pgs, outline) ==
    IF i > Len(bms) THEN outline
    ELSE LET b == bms[i] IN
         IF IsList(b)
         THEN ClaimedFrom(bms, i + 1, parent, last_added, pgs,
                          ClaimedFrom(b.kids, 1, last_added, last_added, pgs, outline))
         ELSE IF PageNos(pgs, b) # {}
         THEN ClaimedFrom(bms, i + 1, parent, Len(outline) + 1, pgs,
                          AddBookmarkDestination(outline, b, parent))
         ELSE ClaimedFrom(bms, i + 1, parent, last_added, pgs, outline)

\* C14: at every level of the forest, the entries of a group met before any
\* leaf of the level was emitted go under the parent the level was given, and
\* those of a group met later go under the last node emitted at the level.
\* Stated for the first write of a session.
C14_GroupUnderLevelParent ==
    (last = Returned("write") /\ nwrite = 1) =>
        output.outline = ClaimedFrom(bookmarks, 1, 0, 0, pages, <<>>)

\* a leaf that write emits: a page of the sequence holds its identity
Resolves(b) == ~IsList(b) /\ PageNos(pages, b) # {}

\* the number of entries write emits for a forest
EmittedCount(f) == Len(SelectSeq(Flatten(f), LAMBDA b : Resolves(b)))

RECURSIVE Paths(_)
\* the places of a forest: a path gives one position per level, from the top
Paths(f) ==
    UNION {{<<x>>} \cup (IF IsList(f[x]) THEN {<<x>> \o q : q \in Paths(f[x].kids)}
                                         ELSE {}) : x \in 1..Len(f)}

RECURSIVE LevelAt(_, _)
\* the level of the forest that path p lies in: the entry at p and its siblings
LevelAt(f, p) == IF Len(p) = 1 THEN f ELSE LevelAt(f[p[1]].kids, Tail(p))

EntryAt(f, p) == LevelAt(f, p)[p[Len(p)]]

RECURSIVE EmittedBefore(_, _)
\* the number of entries write emits before it reaches path p
EmittedBefore(f, p) ==
    EmittedCount(SubSeq(f, 1, p[1] - 1))
        + (IF Len(p) = 1 THEN 0 ELSE EmittedBefore(f[p[1]].kids, Tail(p)))

\* the sink's node for the leaf at path p (its position in the sink's outline)
NodeOf(p) == EmittedBefore(bookmarks, p) + 1

\* the leaves before path p in its level that write emits
EmittedSiblings(p) ==
    {q \in 1..(p[Len(p)] - 1) : Resolves(LevelAt(bookmarks, p)[q])}

\* the node emitted last in the level of path p before p, the leaves passed
\* over not counting; 0 (none) when the level has emitted no leaf before p
LastEmitted(p) ==
    IF EmittedSiblings(p) = {} THEN 0
    ELSE NodeOf(SubSeq(p, 1, Len(p) - 1) \o <<Max(EmittedSiblings(p))>>)

\* C15: write passes over a leaf whose identity no page of the sequence
\* holds, at whatever level the leaf is: it returns normally; the sink gets one
\* entry for each leaf that resolves and none for the others, in forest order,
\* so the leaves behind a skipped one are still emitted; a top-level leaf goes
\* under no node, and a leaf of a group goes under the node emitted last in
\* the group's level before the group, where a skipped leaf between that node
\* and the group changes nothing (under no node when the level has emitted
\* none before the group). Stated for the first write of a session.
C15_UnresolvedLeafSkipped ==
    (last.op = "write" /\ nwrite = 1) =>
        /\ last.exc = "ok"
        /\ Len(output.outline) = EmittedCount(bookmarks)
        /\ \A p \in Paths(bookmarks) :
              Resolves(EntryAt(bookmarks, p)) =>
                  /\ output.outline[NodeOf(p)].title = EntryAt(bookmarks, p).title
                  /\ output.outline[NodeOf(p)].page = EntryAt(bookmarks, p).page
                  /\ output.outline[NodeOf(p)].parent =
                        IF Len(p) = 1 THEN 0 ELSE LastEmitted(SubSeq(p, 1, Len(p) - 1))

\* C15 witness: a write found, at the top level, an emitted leaf, behind it a
\* skipped leaf and right behind that a group with a leaf that resolves, which
\* went under the emitted leaf's node; the group itself starts with a skipped
\* leaf, and leaves behind the group were emitted
C15_Witness ==
    /\ last = Returned("write")
    /\ nwrite = 1
    /\ \E j \in 2..(Len(bookmarks) - 2) :
          /\ ~IsList(bookmarks[j])
          /\ ~Resolves(bookmarks[j])
          /\ IsList(bookmarks[j + 1])
          /\ LastEmitted(<<j + 1>>) # 0
          /\ Len(bookmarks[j + 1].kids) >= 2
          /\ ~Resolves(bookmarks[j + 1].kids[1])
          /\ \E x \in 2..Len(bookmarks[j + 1].kids) :
                /\ Resolves(bookmarks[j + 1].kids[x])
                /\ output.outline[NodeOf(<<j + 1, x>>)].parent = LastEmitted(<<j + 1>>)
          /\ EmittedCount(SubSeq(bookmarks, j + 2, Len(bookmarks))) > 0

-----------------------------------------------------------------------------
(* _buildOutline: an outline entry from an outline node *)

\* the value of a node's /Dest or of its action's /D: an array, or a name
DestArray(p) == [t |-> "array", arr |-> <<PageRef(0, p), "/Fit">>, name |-> ""]
DestShort(arr) == [t |-> "array", arr |-> arr, name |-> ""]
DestName(name) == [t |-> "name", arr |-> <<>>, name |-> name]
NoDest == [t |-> "none", arr |-> <<>>, name |-> ""]

\* an outline node: /Title, and /A (an action with /S and /D) or /Dest
ActionNode(title, s, d) ==
    [hasTitle |-> TRUE, title |-> title, hasA |-> TRUE, s |-> s, d |-> d,
     hasDest |-> FALSE, dest |-> NoDest]
DestNode(title, dest) ==
    [hasTitle |-> TRUE, title |-> title, hasA |-> FALSE, s |-> "", d |-> NoDest,
     hasDest |-> TRUE, dest |-> dest]
BareNode(title) ==
    [hasTitle |-> TRUE, title |-> title, hasA |-> FALSE, s |-> "", d |-> NoDest,
     hasDest |-> FALSE, dest |-> NoDest]

\* an entry _buildOutline returns: a new Destination, or (named) the very
\* object that self._namedDests holds under key
NewEntry(dest) == [named |-> FALSE, key |-> "", dest |-> dest]
NamedEntry(key) == [named |-> TRUE, key |-> key, dest |-> Leaf("", NoPage, 0)]
NoEntry == [named |-> FALSE, key |-> "", dest |-> Leaf("", NoPage, 0)]

\* the Destination an entry is, given the mapping
Deref(e, map) == IF e.named THEN map[e.key] ELSE e.dest

\* the local dest of _buildOutline after the two branches on the node's keys
DestOf(node) ==
    IF node.hasA /\ node.hasTitle
    THEN (IF node.s = "/GoTo" THEN node.d ELSE NoDest)
    ELSE IF node.hasDest /\ node.hasTitle THEN node.dest ELSE NoDest

\* "if dest:" an empty array and an empty name are false, like None
Truthy(dest) ==
    \/ dest.t = "array" /\ dest.arr # <<>>
    \/ dest.t = "name" /\ dest.name # ""

\* _buildOutline(node): the exception, the entry returned (NoEntry for None)
\* and self._namedDests afterwards; reading self._namedDests raises
\* AttributeError when the session has no such attribute
BuildOutline(node, nd) ==
    LET dest == DestOf(node)
        b == BuildDestination(node.title, dest.arr)
    IN  CASE ~Truthy(dest) -> [exc |-> "ok", outline |-> NoEntry, nd |-> nd]
          [] Truthy(dest) /\ dest.t = "array" ->
               [exc |-> b.exc,
                outline |-> IF b.exc = "ok" THEN NewEntry(b.dest) ELSE NoEntry,
                nd |-> nd]
          [] Truthy(dest) /\ dest.t = "name" /\ ~nd.set ->
               [exc |-> "AttributeError", outline |-> NoEntry, nd |-> nd]
          [] Truthy(dest) /\ dest.t = "name" /\ nd.set /\ dest.name \in DOMAIN nd.map ->
               [exc |-> "ok", outline |-> NamedEntry(dest.name),
                nd |-> [nd EXCEPT !.map[dest.name].title = node.title]]
          [] OTHER -> [exc |-> "PdfReadError", outline |-> NoEntry, nd |-> nd]

\* a call of _buildOutline(node); the entry returned is recorded with the call
BuildOutlineCall(node) ==
    /\ \E res \in {BuildOutline(node, namedDests)} :
          /\ namedDests' = res.nd
          /\ last' = [op |-> "_buildOutline", exc |-> res.exc, msg |-> "",
                      ret |-> res.outline]
    /\ args' = [node |-> node]
    /\ UNCHANGED <<inputs, pages, output, bookmarks, id_count, readers, closed,
                   nmerge, nwrite>>

\* getOutlines(): "return self.bookmarks"; the statements after it are never
\* executed
GetOutlinesCall ==
    /\ last' = [op |-> "getOutlines", exc |-> "ok", msg |-> "", ret |-> bookmarks]
    /\ UNCHANGED <<inputs, pages, output, bookmarks, id_count, readers, closed,
                   args, nmerge, nwrite, namedDests>>

\* the outline nodes built
NodeTitles == {"x", "y"}
NodeTargets ==
    {DestArray(0), DestName("a"), DestName("b"),
     DestShort(<<>>), DestShort(<<PageRef(0, 0)>>)}
OutlineNodes ==
    {DestNode(title, dest) : title \in NodeTitles, dest \in NodeTargets}
    \cup {ActionNode(title, "/GoTo", d) : title \in NodeTitles, d \in NodeTargets}
    \cup {ActionNode("x", "/URI", DestName("a")), BareNode("x")}

\* a session that merges one document, reads its outline with getOutlines and
\* builds outline entries from nodes
NextOutline ==
    \/ /\ nmerge = 0
       /\ \E c \in Calls, rid \in 1..(Len(readers) + 1) :
             Merge(0, c.kind, rid, c.doc, c.bookmark, c.pgs, c.imp)
    \/ GetOutlinesCall
    \/ \E node \in OutlineNodes : BuildOutlineCall(node)

SpecOutline == Init /\ [][NextOutline]_vars

\* C16: building an entry from a node whose destination is a name raises
\* nothing but the "unexpected destination" error, leaves self._namedDests as
\* it was, and when it returns the entry carries the node's title.
C16_BuildLeavesNamedDests ==
    [][ (/\ last'.op = "_buildOutline"
         /\ DestOf(args'.node).t = "name"
         /\ Truthy(DestOf(args'.node))) =>
          /\ last'.exc \in {"ok", "PdfReadError"}
          /\ namedDests' = namedDests
          /\ last'.exc = "ok" =>
                Deref(last'.ret, namedDests'.map).title = args'.node.title
      ]_vars

\* the objects of a forest, in depth-first order
IdentsOf(f) == [x \in 1..Len(Flatten(f)) |-> Ident(Flatten(f)[x])]

\* C17: a merge that succeeds puts the pages it admits, in the order of its
\* range, at indices position .. position + n - 1 and keeps the pages that
\* were there, with their identities, in their order around them; the forest
\* keeps its entries in place and gets the entries of the call at its end.
C17_BlockInsertForestAppend ==
    [][ (nmerge' = nmerge + 1 /\ last'.exc = "ok") =>
          LET at == args'.position
              n == Len(pages') - Len(pages)
              old == Len(bookmarks)
          IN  /\ n = Len(ArgRange')
              /\ SubSeq(pages', 1, at) = SubSeq(pages, 1, at)
              /\ SubSeq(pages', at + n + 1, Len(pages')) = SubSeq(pages, at + 1, Len(pages))
              /\ \A x \in 1..n :
                    /\ pages'[at + x].pagedata = GetPage(ArgPdf', ArgRange'[x])
                    /\ pages'[at + x].src = args'.rid
              /\ Len(bookmarks') >= old
              /\ \A j \in 1..old :
                    /\ IsList(bookmarks'[j]) = IsList(bookmarks[j])
                    /\ IdentsOf(<<bookmarks'[j]>>) = IdentsOf(<<bookmarks[j]>>)
              /\ \A x \in 1..Len(Flatten(SubSeq(bookmarks', old + 1, Len(bookmarks')))) :
                    Flatten(SubSeq(bookmarks', old + 1, Len(bookmarks')))[x].obj = nmerge'
      ]_vars

\* C17 witness: a merge put a page between two pages of an earlier call and
\* its bookmarks behind those of the earlier call
C17_Witness ==
    /\ last = Returned("merge")
    /\ nmerge = 2
    /\ args.position = 1
    /\ Len(pages) >= 3
    /\ pages[1].src = pages[3].src
    /\ pages[2].src # pages[1].src
    /\ Len(bookmarks) >= 2
    /\ Flatten(bookmarks)[1].obj = 1
    /\ Flatten(bookmarks)[Len(Flatten(bookmarks))].obj = 2

RECURSIVE AtDepth(_, _)
\* the leaves of a forest in depth-first order, each with its nesting depth
AtDepth(f, d) ==
    IF f = <<>> THEN <<>>
    ELSE (IF IsList(Head(f)) THEN AtDepth(Head(f).kids, d + 1)
          ELSE <<[title |-> Head(f).title, depth |-> d]>>)
         \o AtDepth(Tail(f), d)

RECURSIVE Subsequence(_, _)
\* s is t with some of its elements left out
Subsequence(s, t) ==
    IF s = <<>> THEN TRUE
    ELSE IF t = <<>> THEN FALSE
    ELSE IF Head(s) = Head(t) THEN Subsequence(Tail(s), Tail(t))
    ELSE Subsequence(s, Tail(t))

\* C18: the leaves of the output of trim, read depth-first with their nesting
\* depths, are a subsequence of the leaves of its input read the same way:
\* same relative order, none repeated, each at the depth it had.
C18_TrimKeepsOrderAndDepth ==
    (last.op = "merge" /\ args.imp /\ InDocument(args.pgs, ArgPdf.n)
        /\ ArgTrimmed.exc = "ok") =>
        Subsequence(AtDepth(ArgTrimmed.out, 0),
                    AtDepth(GetOutlines(ArgPdf, nmerge), 0))

RECURSIVE SameShape(_, _)
\* two forests with groups and leaves at the same places
SameShape(f, g) ==
    /\ Len(f) = Len(g)
    /\ \A x \in 1..Len(f) :
          /\ IsList(f[x]) = IsList(g[x])
          /\ IsList(f[x]) => SameShape(f[x].kids, g[x].kids)

\* the forest entries a merge call appends: the synthesized bookmark with the
\* trimmed outline as its group, or the trimmed outline alone
Appended(bookmark, count, trimmed, call) ==
    IF bookmark # ""
    THEN <<Leaf(bookmark, NumberObject(count), call), Group(trimmed)>>
    ELSE trimmed

\* the identity the call gives the page a leaf targets: the last page of the
\* range that is the leaf's page
IdentityOf(b, range, pdf, count) ==
    count + Max({x \in 1..Len(range) :
                    InBounds(pdf, range[x]) /\ GetPage(pdf, range[x]) = b.page}) - 1

\* the leaves of a forest after a walk that rewrote the objects in walked, a
\* set of Ident, to the identities of their pages and then stopped
AfterAbort(F, walked, range, pdf, count) ==
    [x \in 1..Len(F) |->
        IF F[x].page.t = "ref" /\ Ident(F[x]) \in walked
        THEN Leaf(F[x].title, NumberObject(IdentityOf(F[x], range, pdf, count)),
                  F[x].obj)
        ELSE F[x]]

\* the first leaf of F that holds a page reference to none of the pages
\* admitted, 0 when there is none
FirstUnresolved(F, admitted) ==
    LET fails == {x \in 1..Len(F) : F[x].page.t = "ref" /\ F[x].page \notin admitted}
    IN  IF fails = {} THEN 0 ELSE Min(fails)

\* what C19 states of an aborted call, given the forest before association
\* (whole) and the index k of the failing leaf
AbortState(whole, F, k) ==
    /\ pages' = pages
    /\ inputs' = inputs
    /\ id_count' = id_count + Len(ArgRange')
    /\ SameShape(bookmarks', whole)
    /\ k > 0
    /\ F[k].title = last'.msg
    /\ Flatten(bookmarks') =
          AfterAbort(F, {Ident(F[y]) : y \in 1..(k - 1)}, ArgRange', ArgPdf', id_count)

\* C19: a merge call that raises the unresolved-bookmark error leaves the page
\* sequence and the list of inputs as they were; the forest holds the entries
\* the call appended, the leaves the walk passed before the failing leaf
\* rewritten to identities and all others as they were, and the identity
\* counter has advanced by the number of pages of the range.
C19_AbortKeepsForestAndCounter ==
    [][ (nmerge' = nmerge + 1 /\ last'.op = "merge"
            /\ last'.exc = "ValueError" /\ last'.msg # "") =>
          \A trimmed \in {ArgTrimmed'} :
             \A whole \in {bookmarks \o Appended(args'.bookmark, id_count,
                                     IF args'.imp THEN trimmed.out ELSE <<>>,
                                     nmerge')} :
                \A F \in {Flatten(whole)} :
                   \A admitted \in {AdmittedAfter(trimmed)'} :
                      \A k \in {FirstUnresolved(F, admitted)} :
                         AbortState(whole, F, k)
      ]_vars

\* C19 witness: the second merge of a session, with a bookmark title, was
\* aborted at the retained header "2" after leaf "1" had been rewritten; the
\* pages and the input of the first merge are all the session holds of pages
\* and inputs
C19_Witness ==
    /\ last = Raised("merge", "ValueError", "2")
    /\ nmerge = 2
    /\ args.bookmark = "bm"
    /\ Len(inputs) = 1
    /\ pages # <<>>
    /\ id_count = Len(pages) + Len(ArgRange)
    /\ Len(ArgRange) = 1
    /\ \E x \in 1..Len(Flatten(bookmarks)) :
          /\ Flatten(bookmarks)[x].title = "1"
          /\ Flatten(bookmarks)[x].obj = 2
          /\ Flatten(bookmarks)[x].page = NumberObject(Len(pages))

\* C20: a merge call of a document whose range lies inside it and whose
\* trimmed outline targets only pages the call admits returns and admits the
\* pages of its range, whatever the earlier calls of the session did, an
\* aborted merge included: a leaf of an earlier call never makes it raise.
C20_FailedMergeNoPoison ==
    [][ (/\ nmerge' = nmerge + 1
         /\ last'.op = "merge"
         /\ InDocument(args'.pgs, ArgPdf'.n)
         /\ args'.imp => /\ ArgTrimmed'.exc = "ok"
                         /\ \A x \in 1..Len(Flatten(ArgTrimmed'.out)) :
                               Flatten(ArgTrimmed'.out)[x].page \in ArgAdmitted') =>
          /\ last'.exc = "ok"
          /\ Len(pages') = Len(pages) + Len(ArgRange')
      ]_vars

====
